---- MODULE Spec2Model ----
(***************************************************************************)
(* Control logic of the SI47XX touch-shield receiver sketch                *)
(* (SI47XX_RDS_TOUCH_SHIELD_REF_CLOCK.ino): band table and band selection, *)
(* demodulation mode, SSB patch loader, encoder tuning / BFO, seek, step,  *)
(* the AGC ladder, the RDS display and the encoder interrupt.  One action  *)
(* per handler of loop(), each followed by the RDS part that ends loop();  *)
(* each handler is an operator from the machine state (a record of the     *)
(* sketch's globals, the band table and the state of the Si473x chip) to   *)
(* the machine state.                                                      *)
(***************************************************************************)
EXTENDS Integers, Sequences, FiniteSets, TLC

VARIABLES bandIdx, currentMode, currentFrequency, previousFrequency,
          currentStep, currentBFO, currentBFOStep, bfoOn, ssbLoaded,
          audioMute, fmStereo, agcIdx, disableAgc, agcNdx, bwIdxSSB,
          bwIdxAM, lastSwBand, encoderCount, bufferAGC, band, chip,
          rdsMsg, stationName, rdsTime, bufferStatioName, bufferRdsMsg,
          bufferRdsTime, rdsLog, pc,
          moves, left, held, due

\* the sketch's globals, the band table and the chip
prog == <<bandIdx, currentMode, currentFrequency, previousFrequency,
          currentStep, currentBFO, currentBFOStep, bfoOn, ssbLoaded,
          audioMute, fmStereo, agcIdx, disableAgc, agcNdx, bwIdxSSB,
          bwIdxAM, lastSwBand, encoderCount, bufferAGC, band, chip,
          rdsMsg, stationName, rdsTime, bufferStatioName, bufferRdsMsg,
          bufferRdsTime, rdsLog, pc>>

\* moves: tuning inputs given so far (bounds the run);
\* left, held: history of band departures (see DepartureHistory);
\* due: encoder steps the interrupt wrote that no tick has applied yet,
\* <<clockwise, counter-clockwise>>
vars == <<prog, moves, left, held, due>>

----------------------------------------------------------------------------
\* Bounds of the model

\* tuning inputs (encoder steps, seeks, presses of the step control) in one
\* run, and the band they are given on (41m)
MaxMoves == 2

TunedBands == {7}

\* the same for the runs that tune deep on one band (12m)
MaxDeepMoves == 4

DeepBands == {17}

\* encoder steps in the runs that interleave the interrupt with the tick
MaxTurns == 3

\* tuning inputs in the runs that receive RDS, on the FM band
MaxRdsMoves == 1

RdsBands == {0}

\* presses of the step control in the runs that walk the step cycle, and
\* the bands they are given on (41m and All HF)
MaxCycleMoves == 5

CycleBands == {7, 20}

\* the mode buttons: the tuning inputs are given on one SW band
MaxKeyMoves == 2
KeyBands == {7}

----------------------------------------------------------------------------
\* Demodulation modes and band types (#define FM/LSB/USB/AM, *_BAND_TYPE)

FM == "FM"
LSB == "LSB"
USB == "USB"
AM == "AM"

FM_BAND_TYPE == "FM_BAND_TYPE"
MW_BAND_TYPE == "MW_BAND_TYPE"
SW_BAND_TYPE == "SW_BAND_TYPE"
LW_BAND_TYPE == "LW_BAND_TYPE"

\* uint16_t arithmetic of the frequency variables
U16(x) == x % 65536

\* uint8_t arithmetic
U8(x) == x % 256

\* Band band[]: name, type, minimumFreq, maximumFreq, currentFreq, currentStep
bandTable ==
  << <<"FM  ",   FM_BAND_TYPE,  8400, 10800, 10390, 10>>,
     <<"LW  ",   LW_BAND_TYPE,   100,   510,   300,  1>>,
     <<"AM  ",   MW_BAND_TYPE,   520,  1720,   810, 10>>,
     <<"160m",   SW_BAND_TYPE,  1800,  3500,  1900,  1>>,
     <<"80m ",   SW_BAND_TYPE,  3500,  4500,  3700,  1>>,
     <<"60m ",   SW_BAND_TYPE,  4500,  5500,  4850,  5>>,
     <<"49m ",   SW_BAND_TYPE,  5600,  6300,  6000,  5>>,
     <<"41m ",   SW_BAND_TYPE,  6800,  7800,  7100,  5>>,
     <<"31m ",   SW_BAND_TYPE,  9200, 10000,  9600,  5>>,
     <<"30m ",   SW_BAND_TYPE, 10000, 11000, 10100,  1>>,
     <<"25m ",   SW_BAND_TYPE, 11200, 12500, 11940,  5>>,
     <<"22m ",   SW_BAND_TYPE, 13400, 13900, 13600,  5>>,
     <<"20m ",   SW_BAND_TYPE, 14000, 14500, 14200,  1>>,
     <<"19m ",   SW_BAND_TYPE, 15000, 15900, 15300,  5>>,
     <<"18m ",   SW_BAND_TYPE, 17200, 17900, 17600,  5>>,
     <<"17m ",   SW_BAND_TYPE, 18000, 18300, 18100,  1>>,
     <<"15m ",   SW_BAND_TYPE, 21000, 21900, 21200,  1>>,
     <<"12m ",   SW_BAND_TYPE, 24890, 26200, 24940,  1>>,
     <<"CB  ",   SW_BAND_TYPE, 26200, 27900, 27500,  1>>,
     <<"10m ",   SW_BAND_TYPE, 28000, 30000, 28400,  1>>,
     <<"All HF", SW_BAND_TYPE,   100, 30000, 15000,  1>> >>

\* const int lastBand = (sizeof band / sizeof(Band)) - 1
lastBand == Len(bandTable) - 1

Bands == 0..lastBand

\* the constant fields of band[i] (i is the C index, from 0)
bandName(i) == bandTable[i + 1][1]
bandType(i) == bandTable[i + 1][2]
minimumFreq(i) == bandTable[i + 1][3]
maximumFreq(i) == bandTable[i + 1][4]

\* the mutable fields of band[] as the initializer sets them
bandInit ==
  [i \in Bands |-> [currentFreq |-> bandTable[i + 1][5],
                    currentStep |-> bandTable[i + 1][6]]]

----------------------------------------------------------------------------
\* The Si473x behind the SI4735 driver: what the commands of the sketch
\* leave in the chip.  patchStage counts the steps of the patch procedure
\* received in order since the last reset (7: the procedure ran to its
\* end); a power-up for FM or AM drops the patch.  A reset also puts the AGC
\* back to what the chip starts with (enabled, attenuation 0).  audioBw
\* and sbCutFlt are the SSB audio bandwidth and sideband cutoff filter
\* (AUDIOBW, SBCUTFLT) the chip was given; they go with the patch.

Cmd(name, args) == [cmd |-> name, a |-> args]

chipInit ==
  [addr |-> 17,
   func |-> "FM", ssbMode |-> FM, minF |-> 0, maxF |-> 0, freq |-> 0,
   step |-> 0, seekSpacing |-> 0, agc |-> <<0, 0>>, bfo |-> 0,
   patchStage |-> 0, patchOk |-> FALSE, ssbEarly |-> FALSE,
   audioBw |-> 0, sbCutFlt |-> 0]

\* no chip answers on the bus
chipAbsent == [chipInit EXCEPT !.addr = 0]

PatchNext(c, from) == IF c.patchStage = from THEN from + 1 ELSE 0

ChipApply(c, m) ==
  CASE m.cmd = "reset" ->
         [c EXCEPT !.patchStage = 1, !.patchOk = FALSE, !.func = "none",
                   !.agc = <<0, 0>>, !.audioBw = 0, !.sbCutFlt = 0]
    [] m.cmd = "queryLibraryId" ->
         [c EXCEPT !.patchStage = PatchNext(c, 1)]
    [] m.cmd = "patchPowerUp" ->
         [c EXCEPT !.patchStage = PatchNext(c, 2)]
    [] m.cmd = "setI2CFastMode" ->
         [c EXCEPT !.patchStage = PatchNext(c, 3)]
    [] m.cmd = "downloadPatch" ->
         [c EXCEPT !.patchStage = PatchNext(c, 4),
                   !.patchOk = (c.patchStage = 4) /\ m.a[1]]
    [] m.cmd = "setI2CStandardMode" ->
         [c EXCEPT !.patchStage = PatchNext(c, 5)]
    [] m.cmd = "setSSBConfig" ->
         [c EXCEPT !.patchStage = PatchNext(c, 6),
                   !.audioBw = m.a[1], !.sbCutFlt = m.a[2]]
    [] m.cmd = "setSSBAudioBandwidth" ->
         [c EXCEPT !.audioBw = m.a[1]]
    [] m.cmd = "setSBBSidebandCutoffFilter" ->
         [c EXCEPT !.sbCutFlt = m.a[1]]
    [] m.cmd = "setFM" ->
         [c EXCEPT !.func = "FM", !.ssbMode = FM, !.minF = m.a[1],
                   !.maxF = m.a[2], !.freq = m.a[3], !.step = m.a[4],
                   !.patchStage = 0, !.patchOk = FALSE,
                   !.audioBw = 0, !.sbCutFlt = 0]
    [] m.cmd = "setAM" ->
         [c EXCEPT !.func = "AM", !.ssbMode = AM, !.minF = m.a[1],
                   !.maxF = m.a[2], !.freq = m.a[3], !.step = m.a[4],
                   !.patchStage = 0, !.patchOk = FALSE,
                   !.audioBw = 0, !.sbCutFlt = 0]
    [] m.cmd = "setSSB" ->
         [c EXCEPT !.func = "SSB", !.ssbMode = m.a[5], !.minF = m.a[1],
                   !.maxF = m.a[2], !.freq = m.a[3], !.step = m.a[4],
                   !.ssbEarly = c.ssbEarly \/ c.patchStage # 7]
    [] m.cmd = "setSSBBfo" ->
         [c EXCEPT !.bfo = m.a[1],
                   !.ssbEarly = c.ssbEarly \/ c.patchStage # 7]
    [] m.cmd = "setFrequencyStep" ->
         [c EXCEPT !.step = m.a[1]]
    [] m.cmd = "setSeekAmSpacing" ->
         [c EXCEPT !.seekSpacing = m.a[1]]
    [] m.cmd = "setAutomaticGainControl" ->
         [c EXCEPT !.agc = <<m.a[1], m.a[2]>>]
    [] m.cmd = "frequencyUp" ->
         [c EXCEPT !.freq = IF c.freq >= c.maxF THEN c.minF
                            ELSE U16(c.freq + c.step)]
    [] m.cmd = "frequencyDown" ->
         [c EXCEPT !.freq = IF c.freq <= c.minF THEN c.maxF
                            ELSE U16(c.freq - c.step)]
    [] m.cmd = "seekStation" ->
         [c EXCEPT !.freq = m.a[1]]
    [] OTHER -> c

RECURSIVE ChipRun(_, _)
ChipRun(c, cmds) ==
  IF cmds = <<>> THEN c ELSE ChipRun(ChipApply(c, Head(cmds)), Tail(cmds))

\* the machine state after the sketch has sent cmds to the chip
Issue(s, cmds) == [s EXCEPT !.chip = ChipRun(s.chip, cmds)]

----------------------------------------------------------------------------
\* The handlers of the sketch, as operators on the machine state s.  A
\* handler's statements are applied innermost first: f(g(s)) is g; f.

\* showStatus(): the AGC label it leaves in bufferAGC
showStatus(s) ==
  [s EXCEPT !.bufferAGC = IF s.agcNdx = 0 /\ s.agcIdx = 0
                          THEN <<"AGC ON">> ELSE <<"ATT", s.agcNdx>>]

\* a save that stores the step and forgets the frequency
saveBandStepOnly(s) ==
  [s EXCEPT !.band[s.bandIdx].currentStep = s.currentStep]

\* band[bandIdx].currentFreq = currentFrequency;
\* band[bandIdx].currentStep = currentStep;
saveBand(s) ==
  [s EXCEPT !.band[s.bandIdx] = [currentFreq |-> s.currentFrequency,
                                 currentStep |-> s.currentStep]]

\* the arguments useBand() gives setFM / setAM / setSSB
bandArgs(s) ==
  <<minimumFreq(s.bandIdx), maximumFreq(s.bandIdx),
    s.band[s.bandIdx].currentFreq, s.band[s.bandIdx].currentStep>>

\* an FM branch that leaves bfoOn and ssbLoaded as they are
useBandFMKeepsPatch(s) ==
  Issue([s EXCEPT !.currentMode = FM],
        << Cmd("setTuneFrequencyAntennaCapacitor", <<0>>),
           Cmd("setFM", bandArgs(s)),
           Cmd("setFMDeEmphasis", <<1>>),
           Cmd("setSeekFmLimits", <<minimumFreq(s.bandIdx),
                                    maximumFreq(s.bandIdx)>>),
           Cmd("setRdsConfig", <<1, 2, 2, 2, 2>>) >>)

\* useBand(), the FM branch
useBandFM(s) ==
  Issue([Issue([s EXCEPT !.currentMode = FM],
               << Cmd("setTuneFrequencyAntennaCapacitor", <<0>>),
                  Cmd("setFM", bandArgs(s)),
                  Cmd("setFMDeEmphasis", <<1>>),
                  Cmd("setSeekFmLimits", <<minimumFreq(s.bandIdx),
                                           maximumFreq(s.bandIdx)>>) >>)
           EXCEPT !.bfoOn = FALSE, !.ssbLoaded = FALSE],
        << Cmd("setRdsConfig", <<1, 2, 2, 2, 2>>) >>)

\* useBand(), MW / LW / SW: the antenna capacitor and lastSwBand
useBandAntenna(s) ==
  IF bandType(s.bandIdx) = MW_BAND_TYPE \/ bandType(s.bandIdx) = LW_BAND_TYPE
  THEN Issue(s, << Cmd("setTuneFrequencyAntennaCapacitor", <<0>>) >>)
  ELSE Issue([s EXCEPT !.lastSwBand = s.bandIdx],
             << Cmd("setTuneFrequencyAntennaCapacitor", <<1>>) >>)

\* useBand(), MW / LW / SW: if (ssbLoaded) setSSB ... else setAM ...
useBandTune(s) ==
  IF s.ssbLoaded
  THEN Issue(s, << Cmd("setSSB", bandArgs(s) \o <<s.currentMode>>),
                   Cmd("setSSBAutomaticVolumeControl", <<1>>),
                   Cmd("setSsbSoftMuteMaxAttenuation", <<0>>) >>)
  ELSE [Issue([s EXCEPT !.currentMode = AM],
              << Cmd("setAM", bandArgs(s)),
                 Cmd("setAmSoftMuteMaxAttenuation", <<0>>) >>)
          EXCEPT !.bfoOn = FALSE]

\* useBand(), MW / LW / SW: the seek limits and spacing
useBandSeek(s) ==
  Issue(s, << Cmd("setSeekAmLimits", <<minimumFreq(s.bandIdx),
                                       maximumFreq(s.bandIdx)>>),
              Cmd("setSeekAmSpacing",
                  <<IF s.band[s.bandIdx].currentStep > 10 THEN 10
                    ELSE s.band[s.bandIdx].currentStep>>) >>)

\* useBand(), the branch of the MW, LW and SW bands
useBandAM(s) == useBandSeek(useBandTune(useBandAntenna(s)))

\* si4735.setAutomaticGainControl(disableAgc, agcNdx)
setAgc(s) ==
  Issue(s, << Cmd("setAutomaticGainControl", <<s.disableAgc, s.agcNdx>>) >>)

\* a load that takes the frequency and keeps the step of the band left
loadBandFreqOnly(s) ==
  [s EXCEPT !.currentFrequency = s.band[s.bandIdx].currentFreq]

\* useBand(): currentFrequency = band[bandIdx].currentFreq;
\* currentStep = band[bandIdx].currentStep;
loadBand(s) ==
  [s EXCEPT !.currentFrequency = s.band[s.bandIdx].currentFreq,
            !.currentStep = s.band[s.bandIdx].currentStep]

\* a useBand() that does not give the chip the AGC pair again
useBandNoAgc(s) ==
  showStatus(loadBand(
    IF bandType(s.bandIdx) = FM_BAND_TYPE
    THEN useBandFM(s) ELSE useBandAM(s)))

\* useBand(): switch the radio to band[bandIdx]
useBand(s) ==
  showStatus(loadBand(setAgc(
    IF bandType(s.bandIdx) = FM_BAND_TYPE
    THEN useBandFM(s) ELSE useBandAM(s))))

\* a next index that stops at the last band
nextBandNoWrap(s) ==
  [s EXCEPT !.bandIdx = IF s.bandIdx < lastBand THEN s.bandIdx + 1
                        ELSE s.bandIdx]

\* bandUp(): the next index
nextBand(s) ==
  [s EXCEPT !.bandIdx = IF s.bandIdx < lastBand THEN s.bandIdx + 1 ELSE 0]

\* bandUp()
bandUp(s) == useBand(nextBand(saveBand(s)))

\* bandDown(): the previous index
previousBand(s) ==
  [s EXCEPT !.bandIdx = IF s.bandIdx > 0 THEN s.bandIdx - 1 ELSE lastBand]

\* bandDown()
bandDown(s) == useBand(previousBand(saveBand(s)))

\* the commands of loadSSB() with the payload sent before the fast
\* transfer mode is entered
loadSSBCmdsSwapped(s, ok) ==
  << Cmd("reset", <<>>),
     Cmd("queryLibraryId", <<>>),
     Cmd("patchPowerUp", <<>>),
     Cmd("downloadPatch", <<ok>>),
     Cmd("setI2CFastMode", <<>>),
     Cmd("setI2CStandardMode", <<>>),
     Cmd("setSSBConfig", <<s.bwIdxSSB, 1, 0, 0, 0, 1>>) >>

\* the commands of loadSSB(), in the order the sketch sends them;
\* ok: whether the chip takes the whole patch payload
loadSSBCmds(s, ok) ==
  << Cmd("reset", <<>>),
     Cmd("queryLibraryId", <<>>),
     Cmd("patchPowerUp", <<>>),
     Cmd("setI2CFastMode", <<>>),
     Cmd("downloadPatch", <<ok>>),
     Cmd("setI2CStandardMode", <<>>),
     Cmd("setSSBConfig", <<s.bwIdxSSB, 1, 0, 0, 0, 1>>) >>

\* a loadSSB() that sets the flag and sends the chip nothing
loadSSBMarksOnly(s, ok) == [s EXCEPT !.ssbLoaded = TRUE]

\* loadSSB(): the result of downloadPatch is not looked at
loadSSB(s, ok) ==
  [Issue(s, loadSSBCmds(s, ok)) EXCEPT !.ssbLoaded = TRUE]

\* currentFrequency = si4735.getFrequency()
readFrequency(s) == [s EXCEPT !.currentFrequency = s.chip.freq]

\* loop(), "Check if the encoder has moved", the BFO branch
encoderBfo(s) ==
  Issue(s, << Cmd("setSSBBfo", <<s.currentBFO>>) >>)

\* an encoder block that tunes the frequency whether the BFO is on or off
encoderAppliedTunes(s, up) ==
  readFrequency(Issue(s, << IF up
                            THEN Cmd("frequencyUp", <<>>)
                            ELSE Cmd("frequencyDown", <<>>) >>))

\* loop(), "Check if the encoder has moved": the body of the block up to
\* the clear; up is what the test encoderCount == 1 gave
encoderApplied(s, up) ==
  IF s.bfoOn
  THEN encoderBfo([s EXCEPT !.currentBFO =
                     IF up
                     THEN s.currentBFO + s.currentBFOStep
                     ELSE s.currentBFO - s.currentBFOStep])
  ELSE readFrequency(Issue(s, << IF up
                                 THEN Cmd("frequencyUp", <<>>)
                                 ELSE Cmd("frequencyDown", <<>>) >>))

\* encoderCount = 0, the last statement of the block
encoderCleared(s) == [s EXCEPT !.encoderCount = 0]

\* loop(), "Check if the encoder has moved", run without interruption
encoderMoved(s) ==
  IF s.encoderCount = 0 THEN s
  ELSE encoderCleared(encoderApplied(s, s.encoderCount = 1))

\* showFrequencySeek(freq), the progress callback of a seek
showFrequencySeek(s, freq) ==
  [s EXCEPT !.previousFrequency = freq, !.currentFrequency = freq]

\* loop(), bSeekUp / bSeekDown: the chip seeks, reports the frequency it
\* stops at (stop) through the callback, and the sketch reads it back
seekPressed(s, stop) ==
  showStatus(readFrequency(
    showFrequencySeek(Issue(s, << Cmd("seekStation", <<stop>>) >>), stop)))

\* si4735.setAudioMute(audioMute)
setAudioMute(s) == Issue(s, << Cmd("setAudioMute", <<s.audioMute>>) >>)

\* loop(), bAudioMute
mutePressed(s) == setAudioMute([s EXCEPT !.audioMute = ~s.audioMute])

\* a bAM handler that leaves ssbLoaded as it is
amPressedKeepsPatch(s) ==
  IF s.currentMode # FM
  THEN useBand(saveBand([s EXCEPT !.currentMode = AM, !.bfoOn = FALSE]))
  ELSE s

\* a bAM that does not store the tuning in the table
amPressedNoSave(s) ==
  IF s.currentMode # FM
  THEN useBand([s EXCEPT !.currentMode = AM,
                         !.ssbLoaded = FALSE,
                         !.bfoOn = FALSE])
  ELSE s

\* loop(), bAM
amPressed(s) ==
  IF s.currentMode # FM
  THEN useBand(saveBand([s EXCEPT !.currentMode = AM,
                                  !.ssbLoaded = FALSE,
                                  !.bfoOn = FALSE]))
  ELSE s

\* loop(), bFM
fmPressed(s) ==
  IF s.currentMode # FM
  THEN useBand([saveBand(s) EXCEPT !.ssbLoaded = FALSE,
                                   !.bfoOn = FALSE,
                                   !.currentMode = FM,
                                   !.bandIdx = 0])
  ELSE s

\* a bMW that leaves the patch flag as it is
mwPressedKeepsPatch(s) ==
  useBand([saveBand(s) EXCEPT !.bfoOn = FALSE,
                              !.currentMode = AM,
                              !.bandIdx = 2])

\* loop(), bMW
mwPressed(s) ==
  useBand([saveBand(s) EXCEPT !.ssbLoaded = FALSE,
                              !.bfoOn = FALSE,
                              !.currentMode = AM,
                              !.bandIdx = 2])

\* a bSW that always goes to 41m
swPressedFixed(s) ==
  useBand([saveBand(s) EXCEPT !.ssbLoaded = FALSE,
                              !.bfoOn = FALSE,
                              !.currentMode = AM,
                              !.bandIdx = 7])

\* loop(), bSW
swPressed(s) ==
  useBand([saveBand(s) EXCEPT !.ssbLoaded = FALSE,
                              !.bfoOn = FALSE,
                              !.currentMode = AM,
                              !.bandIdx = s.lastSwBand])

\* loop(), bLSB and bUSB: currentMode = LSB (USB); save the band; useBand()
ssbSelect(s, mode) == useBand(saveBand([s EXCEPT !.currentMode = mode]))

\* loop(), bLSB and bUSB (mode is LSB or USB)
ssbPressed(s, mode, ok) ==
  IF s.currentMode # FM
  THEN ssbSelect(IF ~s.ssbLoaded THEN loadSSB(s, ok) ELSE s, mode)
  ELSE s

\* loop(), bAGC: the if / else-if ladder on agcIdx, as
\* <<disableAgc, agcNdx, agcIdx>> set by the branch taken
agcRung(idx) ==
  CASE idx = 0 -> <<0, 0, 1>>
    [] idx = 1 -> <<1, 0, 2>>
    [] idx = 2 -> <<1, 5, 3>>
    [] idx = 3 -> <<1, 10, 4>>
    [] idx = 4 -> <<1, 15, 5>>
    [] idx = 5 -> <<1, 20, 6>>
    [] idx = 6 -> <<1, 25, 7>>
    [] idx = 7 -> <<1, 30, 8>>
    [] idx = 8 -> <<1, 35, 9>>
    [] idx = 9 -> <<1, 0, 0>>

\* loop(), bAGC
agcPressed(s) ==
  showStatus(setAgc(
    IF s.agcIdx \in 0..9
    THEN [s EXCEPT !.disableAgc = agcRung(s.agcIdx)[1],
                   !.agcNdx = agcRung(s.agcIdx)[2],
                   !.agcIdx = agcRung(s.agcIdx)[3]]
    ELSE s))

\* a bFilter that sends cutoff filter 1 for the narrow bandwidths and 0
\* for the wide ones
filterSSBFlipped(s) ==
  Issue(s, << Cmd("setSSBAudioBandwidth", <<s.bwIdxSSB>>),
              Cmd("setSBBSidebandCutoffFilter",
                  <<IF s.bwIdxSSB = 0 \/ s.bwIdxSSB = 4 \/ s.bwIdxSSB = 5
                    THEN 1 ELSE 0>>) >>)

\* loop(), bFilter, LSB / USB: the commands after bwIdxSSB is advanced
filterSSB(s) ==
  Issue(s, << Cmd("setSSBAudioBandwidth", <<s.bwIdxSSB>>),
              Cmd("setSBBSidebandCutoffFilter",
                  <<IF s.bwIdxSSB = 0 \/ s.bwIdxSSB = 4 \/ s.bwIdxSSB = 5
                    THEN 0 ELSE 1>>) >>)

\* loop(), bFilter, AM: the command after bwIdxAM is advanced
filterAM(s) == Issue(s, << Cmd("setBandwidth", <<s.bwIdxAM, 1>>) >>)

\* loop(), bFilter
filterPressed(s) ==
  showStatus(
    IF s.currentMode = LSB \/ s.currentMode = USB
    THEN filterSSB([s EXCEPT !.bwIdxSSB = IF U8(s.bwIdxSSB + 1) > 5 THEN 0
                                          ELSE U8(s.bwIdxSSB + 1)])
    ELSE IF s.currentMode = AM
    THEN filterAM([s EXCEPT !.bwIdxAM = IF U8(s.bwIdxAM + 1) > 6 THEN 0
                                        ELSE U8(s.bwIdxAM + 1)])
    ELSE s)

\* a step cycle without the 500 of the All HF band
nextStepNo500(step, idx) ==
  IF step = 1 THEN 5
  ELSE IF step = 5 THEN 10
  ELSE IF step = 10 THEN 100
  ELSE 1

\* loop(), bStep: the step cycle
nextStep(step, idx) ==
  IF step = 1 THEN 5
  ELSE IF step = 5 THEN 10
  ELSE IF step = 10 THEN 100
  ELSE IF step = 100 /\ idx = lastBand THEN 500
  ELSE 1

\* loop(), bStep, FM: the command after fmStereo is toggled
setFmStereo(s) ==
  Issue(s, << IF s.fmStereo THEN Cmd("setFmStereoOn", <<>>)
              ELSE Cmd("setFmStereoOff", <<>>) >>)

\* a step change that does not store the step in the table
applyStepNoStore(s) ==
  showStatus(
    Issue(s, << Cmd("setFrequencyStep", <<s.currentStep>>),
                Cmd("setSeekAmSpacing",
                    <<IF s.currentStep > 10 THEN 10 ELSE s.currentStep>>) >>))

\* loop(), bStep: what follows the new currentStep
applyStep(s) ==
  showStatus(
    Issue([Issue(s, << Cmd("setFrequencyStep", <<s.currentStep>>) >>)
             EXCEPT !.band[s.bandIdx].currentStep = s.currentStep],
          << Cmd("setSeekAmSpacing",
                 <<IF s.currentStep > 10 THEN 10 ELSE s.currentStep>>) >>))

\* loop(), bStep
stepPressed(s) ==
  IF s.currentMode = FM
  THEN setFmStereo([s EXCEPT !.fmStereo = ~s.fmStereo])
  ELSE IF s.bfoOn /\ (s.currentMode = LSB \/ s.currentMode = USB)
  THEN [s EXCEPT !.currentBFOStep = IF s.currentBFOStep = 25 THEN 10 ELSE 25]
  ELSE applyStep([s EXCEPT !.currentStep = nextStep(s.currentStep, s.bandIdx)])

\* an encoder push handler that toggles bfoOn in every mode
encoderPushedAnyMode(s) == showStatus([s EXCEPT !.bfoOn = ~s.bfoOn])

\* loop(), digitalRead(ENCODER_PUSH_BUTTON) == LOW
encoderPushed(s) ==
  IF s.currentMode = LSB \/ s.currentMode = USB
  THEN showStatus([s EXCEPT !.bfoOn = ~s.bfoOn])
  ELSE s

\* the globals as their initializers set them, the chip as
\* si4735.setup(RESET_PIN, 0, POWER_UP_FM, ...) leaves it
globalsInit ==
  [bandIdx |-> 0, currentMode |-> FM, currentFrequency |-> 0,
   previousFrequency |-> 0, currentStep |-> 1, currentBFO |-> 0,
   currentBFOStep |-> 25, bfoOn |-> FALSE, ssbLoaded |-> FALSE,
   audioMute |-> FALSE, fmStereo |-> TRUE, agcIdx |-> 0, disableAgc |-> 0,
   agcNdx |-> 0, bwIdxSSB |-> 2, bwIdxAM |-> 1, lastSwBand |-> 7,
   encoderCount |-> 0, bufferAGC |-> <<>>, band |-> bandInit,
   chip |-> chipInit,
   rdsMsg |-> <<>>, stationName |-> <<>>, rdsTime |-> <<>>,
   bufferStatioName |-> "", bufferRdsMsg |-> "", bufferRdsTime |-> "",
   rdsLog |-> <<>>, pc |-> "setup"]

\* setup(): currentFrequency = previousFrequency = si4735.getFrequency()
readFrequencies(s) ==
  [s EXCEPT !.currentFrequency = s.chip.freq,
            !.previousFrequency = s.chip.freq]

\* setup() without the test of the chip's address
setupNoProbe(s) == [readFrequencies(useBand(s)) EXCEPT !.pc = "loop"]

\* setup(): si4735.getDeviceI2CAddress() returns 0 and the sketch stops in
\* while (1), or the chip is set up and loop() begins
setup(s) ==
  IF s.chip.addr = 0 THEN [s EXCEPT !.pc = "halt"]
  ELSE [readFrequencies(useBand(s)) EXCEPT !.pc = "loop"]

----------------------------------------------------------------------------
\* RDS.  A char pointer is <<>> (NULL) or <<text>> (the address of a buffer
\* of the driver that holds text).  rdsLog is what the running tick has done
\* about RDS so far: the status queries, the clearing of the caches and the
\* texts printed (with the cache before, the text on the display, and the
\* cache after).

RdsEvent(op, field, old, new, kept) ==
  [op |-> op, field |-> field, old |-> old, new |-> new, kept |-> kept]

\* a string read through a NULL pointer: on the AVR address 0 is register
\* r0 followed by the zero register, so the read gives the empty string or
\* one character
Junk == {"", "?"}

NoJunk == <<"", "", "">>

\* *p as the read number i of a function finds it: the text p points to, or
\* junk[i] when p is NULL
deref(p, junk, i) == IF p = <<>> THEN junk[i] ELSE p[1]

\* p[0] = '\0'; a write through NULL changes nothing the sketch reads
terminated(p) == IF p = <<>> THEN <<>> ELSE <<"">>

\* printText(.., oldValue, newValue, ..): prints newValue over oldValue,
\* then strcpy(oldValue, newValue); shown and copied are newValue as the
\* printing loop and as strcpy read it
printText(s, oldValue, shown, copied) ==
  [s EXCEPT ![oldValue] = copied,
            !.rdsLog = Append(@, RdsEvent("push", oldValue, s[oldValue],
                                          shown, copied))]

\* showRDSMsg(); junk is what the three reads of *rdsMsg give if it is NULL
showRDSMsg(s, junk) ==
  IF s.bufferRdsMsg = deref(s.rdsMsg, junk, 1) THEN s
  ELSE printText(s, "bufferRdsMsg", deref(s.rdsMsg, junk, 2),
                 deref(s.rdsMsg, junk, 3))

showRDSStation(s, junk) ==
  IF s.bufferStatioName = deref(s.stationName, junk, 1) THEN s
  ELSE printText(s, "bufferStatioName", deref(s.stationName, junk, 2),
                 deref(s.stationName, junk, 3))

showRDSTime(s, junk) ==
  IF s.bufferRdsTime = deref(s.rdsTime, junk, 1) THEN s
  ELSE printText(s, "bufferRdsTime", deref(s.rdsTime, junk, 2),
                 deref(s.rdsTime, junk, 3))

\* what si4735.getRdsStatus() may find in one tick: nothing received, or a
\* group with or without sync, and what getRdsText2A(), getRdsText0A() and
\* getRdsTime() then return
RdsReport(received, sync, msg, name, time) ==
  [received |-> received, sync |-> sync, msg |-> msg, name |-> name,
   time |-> time]

\* checkRDS(): si4735.getRdsStatus()
getRdsStatus(s) ==
  [s EXCEPT !.rdsLog = Append(@, RdsEvent("query", "", "", "", ""))]

\* checkRDS(): the three pointers fetched from the driver
getRdsTexts(s, r) ==
  [s EXCEPT !.rdsMsg = r.msg, !.stationName = r.name, !.rdsTime = r.time]

\* checkRDS(): if (rdsMsg != NULL) showRDSMsg(), and so on
checkRDSMsg(s) == IF s.rdsMsg # <<>> THEN showRDSMsg(s, NoJunk) ELSE s

checkRDSStation(s) ==
  IF s.stationName # <<>> THEN showRDSStation(s, NoJunk) ELSE s

checkRDSTime(s) == IF s.rdsTime # <<>> THEN showRDSTime(s, NoJunk) ELSE s

\* checkRDS(); r is what the chip reports
checkRDS(s, r) ==
  IF r.received /\ r.sync
  THEN checkRDSTime(checkRDSStation(checkRDSMsg(
         getRdsTexts(getRdsStatus(s), r))))
  ELSE getRdsStatus(s)

\* loop(), the end, under currentFrequency != previousFrequency: the
\* chained assignment that empties the caches and the driver's texts
rdsClear(s) ==
  [s EXCEPT !.bufferStatioName = "", !.bufferRdsMsg = "",
            !.bufferRdsTime = "",
            !.rdsTime = terminated(@), !.rdsMsg = terminated(@),
            !.stationName = terminated(@),
            !.rdsLog = Append(@, RdsEvent("clear", "", "", "", ""))]

\* ... followed by showRDSMsg(); showRDSStation();
\* previousFrequency = currentFrequency
rdsRetuned(s, junk) ==
  [showRDSStation(showRDSMsg(rdsClear(s), junk[1]), junk[2])
     EXCEPT !.previousFrequency = s.currentFrequency]

\* loop(), the end: if (currentMode == FM) { ... checkRDS(); }
rdsTail(s, r, junk) ==
  IF s.currentMode = FM
  THEN checkRDS(IF s.currentFrequency # s.previousFrequency
                THEN rdsRetuned(s, junk) ELSE s, r)
  ELSE s

\* loop() is entered: nothing done about RDS yet
beginTick(s) == [s EXCEPT !.rdsLog = <<>>]

----------------------------------------------------------------------------
\* rotaryEncoder(), the interrupt handler; status is encoder.process()
rotaryEncoder(s, status) ==
  IF status = "DIR_NONE" THEN s
  ELSE IF status = "DIR_CW" THEN [s EXCEPT !.encoderCount = 1]
  ELSE [s EXCEPT !.encoderCount = -1]

----------------------------------------------------------------------------
\* The state machine

\* the machine state the variables hold
Cur ==
  [bandIdx |-> bandIdx, currentMode |-> currentMode,
   currentFrequency |-> currentFrequency,
   previousFrequency |-> previousFrequency, currentStep |-> currentStep,
   currentBFO |-> currentBFO, currentBFOStep |-> currentBFOStep,
   bfoOn |-> bfoOn, ssbLoaded |-> ssbLoaded, audioMute |-> audioMute,
   fmStereo |-> fmStereo, agcIdx |-> agcIdx, disableAgc |-> disableAgc,
   agcNdx |-> agcNdx, bwIdxSSB |-> bwIdxSSB, bwIdxAM |-> bwIdxAM,
   lastSwBand |-> lastSwBand, encoderCount |-> encoderCount,
   bufferAGC |-> bufferAGC, band |-> band, chip |-> chip,
   rdsMsg |-> rdsMsg, stationName |-> stationName, rdsTime |-> rdsTime,
   bufferStatioName |-> bufferStatioName, bufferRdsMsg |-> bufferRdsMsg,
   bufferRdsTime |-> bufferRdsTime, rdsLog |-> rdsLog, pc |-> pc]

\* the handler's result becomes the next state
Set(s) ==
  /\ bandIdx' = s.bandIdx
  /\ currentMode' = s.currentMode
  /\ currentFrequency' = s.currentFrequency
  /\ previousFrequency' = s.previousFrequency
  /\ currentStep' = s.currentStep
  /\ currentBFO' = s.currentBFO
  /\ currentBFOStep' = s.currentBFOStep
  /\ bfoOn' = s.bfoOn
  /\ ssbLoaded' = s.ssbLoaded
  /\ audioMute' = s.audioMute
  /\ fmStereo' = s.fmStereo
  /\ agcIdx' = s.agcIdx
  /\ disableAgc' = s.disableAgc
  /\ agcNdx' = s.agcNdx
  /\ bwIdxSSB' = s.bwIdxSSB
  /\ bwIdxAM' = s.bwIdxAM
  /\ lastSwBand' = s.lastSwBand
  /\ encoderCount' = s.encoderCount
  /\ bufferAGC' = s.bufferAGC
  /\ band' = s.band
  /\ chip' = s.chip
  /\ rdsMsg' = s.rdsMsg
  /\ stationName' = s.stationName
  /\ rdsTime' = s.rdsTime
  /\ bufferStatioName' = s.bufferStatioName
  /\ bufferRdsMsg' = s.bufferRdsMsg
  /\ bufferRdsTime' = s.bufferRdsTime
  /\ rdsLog' = s.rdsLog
  /\ pc' = s.pc

\* DepartureHistory: left[b] is <<frequency, step>> that were active when
\* band b was last left by a band selection (before the first time: what
\* the table's initializer gives it); held says that no encoder step, seek
\* or step change was made since the active band was selected.
Depart == /\ left' = [left EXCEPT ![bandIdx] = <<currentFrequency, currentStep>>]
          /\ held' = TRUE

Retuned == /\ held' = FALSE
           /\ UNCHANGED left

\* the tuning inputs (encoder, seek, step control) are given only on the
\* bands of tuned, lim times in all
MayTune(lim, tuned) == moves < lim /\ bandIdx \in tuned

\* frequencies at which a seek on the active band may stop: where it
\* started (nothing found) or a band edge
SeekStops == {chip.freq, minimumFreq(bandIdx), maximumFreq(bandIdx)}

\* the variables hold machine state s and no history
Start(s) ==
  /\ bandIdx = s.bandIdx
  /\ currentMode = s.currentMode
  /\ currentFrequency = s.currentFrequency
  /\ previousFrequency = s.previousFrequency
  /\ currentStep = s.currentStep
  /\ currentBFO = s.currentBFO
  /\ currentBFOStep = s.currentBFOStep
  /\ bfoOn = s.bfoOn
  /\ ssbLoaded = s.ssbLoaded
  /\ audioMute = s.audioMute
  /\ fmStereo = s.fmStereo
  /\ agcIdx = s.agcIdx
  /\ disableAgc = s.disableAgc
  /\ agcNdx = s.agcNdx
  /\ bwIdxSSB = s.bwIdxSSB
  /\ bwIdxAM = s.bwIdxAM
  /\ lastSwBand = s.lastSwBand
  /\ encoderCount = s.encoderCount
  /\ bufferAGC = s.bufferAGC
  /\ band = s.band
  /\ chip = s.chip
  /\ rdsMsg = s.rdsMsg
  /\ stationName = s.stationName
  /\ rdsTime = s.rdsTime
  /\ bufferStatioName = s.bufferStatioName
  /\ bufferRdsMsg = s.bufferRdsMsg
  /\ bufferRdsTime = s.bufferRdsTime
  /\ rdsLog = s.rdsLog
  /\ pc = s.pc
  /\ moves = 0
  /\ left = [i \in Bands |-> <<bandInit[i].currentFreq,
                               bandInit[i].currentStep>>]
  /\ held = (s.pc = "loop")
  /\ due = <<0, 0>>

\* the state setup() leaves, a chip on the bus
Init == Start(setup(globalsInit))

\* the state setup() leaves, with a chip on the bus or without
InitProbe ==
  \E c \in {chipInit, chipAbsent} :
     Start(setup([globalsInit EXCEPT !.chip = c]))

\* What a tick finds around it: rds, what the chip may report about RDS,
\* and null, the strings a read through a NULL pointer may give.
\* Off the air the chip reports nothing.  What is read through NULL only
\* reaches the RDS caches and the RDS lines of the display, which nothing
\* but the RDS part of loop() reads, so the specifications that are not
\* about RDS let such a read give the empty string.
OffAir ==
  [rds |-> {RdsReport(FALSE, FALSE, <<>>, <<>>, <<>>)}, null |-> {""}]

\* On a station that sends RDS the chip also reports groups that bring any
\* of the three texts, and groups received without sync; a read through
\* NULL gives any junk
OnAir ==
  [rds |-> OffAir.rds
           \cup {RdsReport(TRUE, FALSE, <<"A">>, <<"A">>, <<"A">>)}
           \cup {RdsReport(TRUE, TRUE, m, n, c) :
                   m \in {<<>>, <<"A">>, <<"B">>},
                   n \in {<<>>, <<"A">>},
                   c \in {<<>>, <<"A">>}},
   null |-> Junk]

\* the three reads of a function through pointer p
Reads(p, null) ==
  IF p = <<>> THEN null \X null \X null ELSE {NoJunk}

\* what the reads through rdsMsg and stationName may give at the end of a
\* tick that leaves h: junk where the pointer is NULL and is read
TailJunk(h, null) ==
  IF h.currentMode = FM /\ h.currentFrequency # h.previousFrequency
  THEN Reads(h.rdsMsg, null) \X Reads(h.stationName, null)
  ELSE {<<NoJunk, NoJunk>>}

\* the tick ends: the handlers have left h, the RDS part of loop() runs
Done(h, air) ==
  \E r \in air.rds : \E junk \in TailJunk(h, air.null) :
     Set(rdsTail(h, r, junk))

\* the machine state as loop() is entered
Entered == beginTick(Cur)

\* The interrupt and the tick that drains it, the tick not interrupted.  No
\* button handler reads or writes encoderCount, so a button between the
\* two acts as before them.
EncoderTurned(lim, tuned, air) ==
  /\ pc = "loop"
  /\ MayTune(lim, tuned)
  /\ \E status \in {"DIR_CW", "DIR_CCW"} :
        Done(encoderMoved(rotaryEncoder(Entered, status)), air)
  /\ moves' = moves + 1
  /\ IF bfoOn THEN UNCHANGED <<left, held>> ELSE Retuned
  /\ UNCHANGED due

BandUp(air) ==
  /\ pc = "loop"
  /\ Done(bandUp(Entered), air)
  /\ Depart
  /\ UNCHANGED <<moves, due>>

BandDown(air) ==
  /\ pc = "loop"
  /\ Done(bandDown(Entered), air)
  /\ Depart
  /\ UNCHANGED <<moves, due>>

SeekPressed(lim, tuned, air) ==
  /\ pc = "loop"
  /\ MayTune(lim, tuned)
  /\ \E stop \in SeekStops : Done(seekPressed(Entered, stop), air)
  /\ moves' = moves + 1
  /\ Retuned
  /\ UNCHANGED due

AmPressed(air) ==
  /\ pc = "loop"
  /\ Done(amPressed(Entered), air)
  /\ UNCHANGED <<moves, left, held, due>>

FmPressed(air) ==
  /\ pc = "loop"
  /\ Done(fmPressed(Entered), air)
  /\ IF currentMode # FM THEN Depart ELSE UNCHANGED <<left, held>>
  /\ UNCHANGED <<moves, due>>

MwPressed(air) ==
  /\ pc = "loop"
  /\ Done(mwPressed(Entered), air)
  /\ Depart
  /\ UNCHANGED <<moves, due>>

SwPressed(air) ==
  /\ pc = "loop"
  /\ Done(swPressed(Entered), air)
  /\ Depart
  /\ UNCHANGED <<moves, due>>

\* outcomes: whether the chip takes the patch payload
SsbPressed(outcomes, air) ==
  /\ pc = "loop"
  /\ \E mode \in {LSB, USB}, ok \in outcomes :
        Done(ssbPressed(Entered, mode, ok), air)
  /\ UNCHANGED <<moves, left, held, due>>

StepPressed(lim, tuned, air) ==
  /\ pc = "loop"
  /\ MayTune(lim, tuned)
  /\ Done(stepPressed(Entered), air)
  /\ moves' = moves + 1
  /\ IF currentMode = FM \/ bfoOn THEN UNCHANGED <<left, held>> ELSE Retuned
  /\ UNCHANGED due

EncoderPushed(air) ==
  /\ pc = "loop"
  /\ Done(encoderPushed(Entered), air)
  /\ UNCHANGED <<moves, left, held, due>>

AgcPressed(air) ==
  /\ pc = "loop"
  /\ Done(agcPressed(Entered), air)
  /\ UNCHANGED <<moves, left, held, due>>

FilterPressed(air) ==
  /\ pc = "loop"
  /\ Done(filterPressed(Entered), air)
  /\ UNCHANGED <<moves, left, held, due>>

MutePressed(air) ==
  /\ pc = "loop"
  /\ Done(mutePressed(Entered), air)
  /\ UNCHANGED <<moves, left, held, due>>

\* a tick with no button pressed and the encoder at rest
Idle(air) ==
  /\ pc = "loop"
  /\ encoderCount = 0
  /\ Done(Entered, air)
  /\ UNCHANGED <<moves, left, held, due>>

\* one handler of loop() runs: band and mode selection, tuning, BFO; the
\* tuning inputs are bounded by lim, tuned
Tick(lim, tuned, outcomes, air) ==
  \/ EncoderTurned(lim, tuned, air)
  \/ BandUp(air)
  \/ BandDown(air)
  \/ SeekPressed(lim, tuned, air)
  \/ AmPressed(air)
  \/ FmPressed(air)
  \/ MwPressed(air)
  \/ SwPressed(air)
  \/ SsbPressed(outcomes, air)
  \/ StepPressed(lim, tuned, air)
  \/ EncoderPushed(air)

Next == Tick(MaxMoves, TunedBands, {TRUE}, OffAir)

Spec == Init /\ [][Next]_vars

\* the same machine, with a chip that may refuse the patch payload
NextFault == Tick(MaxMoves, TunedBands, {TRUE, FALSE}, OffAir)

SpecFault == Init /\ [][NextFault]_vars

\* band up / down and the tuning inputs alone, spent on one band
NextDeep ==
  \/ EncoderTurned(MaxDeepMoves, DeepBands, OffAir)
  \/ BandUp(OffAir)
  \/ BandDown(OffAir)
  \/ SeekPressed(MaxDeepMoves, DeepBands, OffAir)
  \/ StepPressed(MaxDeepMoves, DeepBands, OffAir)

SpecDeep == Init /\ [][NextDeep]_vars

\* the controls that tune nothing (AGC, filter, mute) and band up / down
NextPanel ==
  \/ AgcPressed(OffAir)
  \/ FilterPressed(OffAir)
  \/ MutePressed(OffAir)
  \/ BandUp(OffAir)
  \/ BandDown(OffAir)

SpecPanel == Init /\ [][NextPanel]_vars

\* the step control walked round its cycle, with the SSB controls beside it
NextCycle ==
  \/ StepPressed(MaxCycleMoves, CycleBands, OffAir)
  \/ BandUp(OffAir)
  \/ BandDown(OffAir)
  \/ SwPressed(OffAir)
  \/ SsbPressed({TRUE}, OffAir)
  \/ EncoderPushed(OffAir)

SpecCycle == Init /\ [][NextCycle]_vars

\* the mode buttons and the band shortcuts, with the encoder and the step
\* control beside them
NextKeys ==
  \/ AmPressed(OffAir)
  \/ FmPressed(OffAir)
  \/ MwPressed(OffAir)
  \/ SwPressed(OffAir)
  \/ SsbPressed({TRUE}, OffAir)
  \/ EncoderPushed(OffAir)
  \/ EncoderTurned(MaxKeyMoves, KeyBands, OffAir)
  \/ StepPressed(MaxKeyMoves, KeyBands, OffAir)

SpecKeys == Init /\ [][NextKeys]_vars

\* the same controls with the AGC control
NextLadder ==
  \/ NextKeys
  \/ AgcPressed(OffAir)

SpecLadder == Init /\ [][NextLadder]_vars

\* the filter control in FM, AM and SSB
NextFilter ==
  \/ FilterPressed(OffAir)
  \/ SsbPressed({TRUE}, OffAir)
  \/ AmPressed(OffAir)
  \/ FmPressed(OffAir)
  \/ SwPressed(OffAir)

SpecFilter == Init /\ [][NextFilter]_vars

----------------------------------------------------------------------------
\* The interrupt against the tick, statement by statement.  pc is "loop"
\* between ticks, "encDir" after the test encoderCount != 0 came out true,
\* "encClear" after the body of the block, before encoderCount = 0.
\* encoderCount is a 16-bit int that the AVR reads and writes one byte at
\* a time, with nothing to keep the interrupt out: an access the interrupt
\* falls into is torn.

\* the two bytes of a 16-bit int, and the int of two bytes
Lo(v) == ((v + 65536) % 65536) % 256

Hi(v) == ((v + 65536) % 65536) \div 256

Int16(lo, hi) == IF hi >= 128 THEN hi * 256 + lo - 65536 ELSE hi * 256 + lo

\* what a read gives when the interrupt writes new between its two byte
\* loads, in either order of the loads
TornRead(old, new) == {Int16(Lo(old), Hi(new)), Int16(Lo(new), Hi(old))}

\* what encoderCount = 0 leaves when the interrupt writes new between its
\* two byte stores, in either order of the stores
TornClear(new) == {Int16(Lo(new), 0), Int16(0, Hi(new))}

\* what rotaryEncoder() writes for status
Written(status) == IF status = "DIR_CW" THEN 1 ELSE -1

\* due after the interrupt wrote one step, and after a tick applied one
Wrote(d, status) ==
  IF status = "DIR_CW" THEN <<d[1] + 1, d[2]>> ELSE <<d[1], d[2] + 1>>

Applied(d, up) ==
  IF up THEN <<IF d[1] > 0 THEN d[1] - 1 ELSE 0, d[2]>>
  ELSE <<d[1], IF d[2] > 0 THEN d[2] - 1 ELSE 0>>

\* the interrupt, between two statements of the tick
Isr(lim) ==
  /\ pc \in {"loop", "encDir", "encClear"}
  /\ moves < lim
  /\ \E status \in {"DIR_CW", "DIR_CCW"} :
        /\ Set(rotaryEncoder(Cur, status))
        /\ due' = Wrote(due, status)
  /\ moves' = moves + 1
  /\ UNCHANGED <<left, held>>

\* if (encoderCount != 0), true
EncTest ==
  /\ pc = "loop"
  /\ encoderCount # 0
  /\ Set([Entered EXCEPT !.pc = "encDir"])
  /\ UNCHANGED <<moves, left, held, due>>

\* the body of the block: encoderCount == 1 read, the step applied
EncApply ==
  /\ pc = "encDir"
  /\ Set([encoderApplied(Cur, encoderCount = 1) EXCEPT !.pc = "encClear"])
  /\ due' = Applied(due, encoderCount = 1)
  /\ IF bfoOn THEN UNCHANGED <<left, held>> ELSE Retuned
  /\ UNCHANGED moves

\* encoderCount = 0 and the rest of loop(), no button pressed
EncClear(air) ==
  /\ pc = "encClear"
  /\ Done([encoderCleared(Cur) EXCEPT !.pc = "loop"], air)
  /\ UNCHANGED <<moves, left, held, due>>

\* the interrupt falls into the read of if (encoderCount != 0)
IsrInTest(lim, air) ==
  /\ pc = "loop"
  /\ moves < lim
  /\ \E status \in {"DIR_CW", "DIR_CCW"} :
        /\ \E read \in TornRead(encoderCount, Written(status)) :
              IF read # 0
              THEN Set([rotaryEncoder(Entered, status)
                          EXCEPT !.pc = "encDir"])
              ELSE Done(rotaryEncoder(Entered, status), air)
        /\ due' = Wrote(due, status)
  /\ moves' = moves + 1
  /\ UNCHANGED <<left, held>>

\* the interrupt falls into the read of encoderCount == 1
IsrInApply(lim) ==
  /\ pc = "encDir"
  /\ moves < lim
  /\ \E status \in {"DIR_CW", "DIR_CCW"} :
        \E read \in TornRead(encoderCount, Written(status)) :
           /\ Set([encoderApplied(rotaryEncoder(Cur, status), read = 1)
                     EXCEPT !.pc = "encClear"])
           /\ due' = Applied(Wrote(due, status), read = 1)
  /\ moves' = moves + 1
  /\ IF bfoOn THEN UNCHANGED <<left, held>> ELSE Retuned

\* the interrupt falls into the write encoderCount = 0
IsrInClear(lim, air) ==
  /\ pc = "encClear"
  /\ moves < lim
  /\ \E status \in {"DIR_CW", "DIR_CCW"} :
        /\ \E v \in TornClear(Written(status)) :
              Done([Cur EXCEPT !.encoderCount = v, !.pc = "loop"], air)
        /\ due' = Wrote(due, status)
  /\ moves' = moves + 1
  /\ UNCHANGED <<left, held>>

\* the encoder turned while loop() runs with no button pressed
NextIsr ==
  \/ Isr(MaxTurns)
  \/ EncTest
  \/ EncApply
  \/ EncClear(OffAir)
  \/ IsrInTest(MaxTurns, OffAir)
  \/ IsrInApply(MaxTurns)
  \/ IsrInClear(MaxTurns, OffAir)
  \/ Idle(OffAir)

SpecIsr == Init /\ [][NextIsr]_vars

\* the machine started with or without a chip on the bus
SpecProbe == InitProbe /\ [][Next]_vars

\* FM tuning on a station that sends RDS, and the way to MW and back
NextRds ==
  \/ Idle(OnAir)
  \/ EncoderTurned(MaxRdsMoves, RdsBands, OnAir)
  \/ SeekPressed(MaxRdsMoves, RdsBands, OnAir)
  \/ MwPressed(OnAir)
  \/ FmPressed(OnAir)

SpecRds == Init /\ [][NextRds]_vars

----------------------------------------------------------------------------
\* Properties

\* C1: in every reachable state, whenever the mode is FM or AM the flag
\* ssbLoaded is false.
C1_NoPatchFlagInFmAm == currentMode \in {FM, AM} => ~ssbLoaded

\* AM, entered after an SSB session in which the BFO was moved
C1_Witness == currentMode = AM /\ ~ssbLoaded /\ currentBFO # 0

\* C2: no setSSB and no setSSBBfo reaches the chip unless the patch
\* procedure ran to its end since the chip was last reset or last set up
\* for FM / AM; pressing LSB in AM with ssbLoaded false runs the whole
\* procedure before the mode becomes LSB and before any setSSB / setSSBBfo.
C2_PatchBeforeSSB ==
  /\ ~chip.ssbEarly
  /\ chip.func = "SSB" => chip.patchStage = 7
  /\ (currentMode = AM /\ ~ssbLoaded) =>
       /\ ssbPressed(Cur, LSB, TRUE).currentMode = LSB
       /\ ssbPressed(Cur, LSB, TRUE).chip.patchStage = 7
       /\ ssbPressed(Cur, LSB, TRUE).chip.func = "SSB"
       /\ ~ssbPressed(Cur, LSB, TRUE).chip.ssbEarly

\* the chip tuned for SSB and given a BFO offset
C2_Witness == chip.func = "SSB" /\ chip.patchStage = 7 /\ chip.bfo # 0

\* C3: ssbLoaded goes from false to true only in a step in which the chip
\* received reset, queryLibraryId, patchPowerUp, setI2CFastMode,
\* downloadPatch, setI2CStandardMode, setSSBConfig in this order (the step
\* of the LSB / USB button pressed in AM); in no other step.
C3_LoaderOrder ==
  [][(~ssbLoaded /\ ssbLoaded') =>
       /\ chip.patchStage = 0
       /\ chip'.patchStage = 7
       /\ currentMode = AM
       /\ currentMode' \in {LSB, USB}]_vars

\* USB just entered from AM: the loader has run
C3_Witness ==
  ssbLoaded /\ chip.patchStage = 7 /\ currentMode = USB /\ chip.ssbMode = USB

\* C4: if the patch transfer of a loader run fails, ssbLoaded stays false,
\* the mode does not become LSB / USB and the chip gets no setSSB.
C4_FailedLoadAborts ==
  (chip.patchStage = 7 /\ ~chip.patchOk) =>
     /\ ~ssbLoaded
     /\ currentMode \notin {LSB, USB}
     /\ chip.func # "SSB"

\* C5: bfoOn is true only in LSB or USB; in FM or AM an encoder step
\* leaves the BFO offset alone and sends no setSSBBfo, and the encoder push
\* button leaves bfoOn false.
C5_BfoOnlyInSSB ==
  /\ bfoOn => currentMode \in {LSB, USB}
  /\ currentMode \in {FM, AM} =>
       /\ ~encoderPushed(Cur).bfoOn
       /\ \A status \in {"DIR_CW", "DIR_CCW"} :
            /\ encoderMoved(rotaryEncoder(Cur, status)).currentBFO = currentBFO
            /\ encoderMoved(rotaryEncoder(Cur, status)).chip.bfo = chip.bfo

\* the BFO moved down one step in LSB
C5_Witness == bfoOn /\ currentMode = LSB /\ currentBFO = -25

\* C6: every entry of the band table holds a frequency within its band's
\* limits, and the active frequency lies within the active band's limits.
C6_FrequenciesInRange ==
  /\ \A i \in Bands : /\ minimumFreq(i) <= band[i].currentFreq
                      /\ band[i].currentFreq <= maximumFreq(i)
  /\ minimumFreq(bandIdx) <= currentFrequency
  /\ currentFrequency <= maximumFreq(bandIdx)

\* C7: band up then band down, and band down then band up, come back to
\* the same band index, across the wrap between the last band and band 0
\* too.
C7_BandUpDownInverse ==
  /\ bandDown(bandUp(Cur)).bandIdx = bandIdx
  /\ bandUp(bandDown(Cur)).bandIdx = bandIdx

\* the last band, reached from band 0 by band down; band up wraps from it
C7_Witness ==
  /\ bandIdx = lastBand
  /\ bandUp(Cur).bandIdx = 0
  /\ bandDown(bandUp(Cur)).bandIdx = lastBand

\* C8: when a band is selected again and nothing was tuned since, the
\* active frequency and step are those that were active when the band was
\* last left.
C8_ReturnRestoresTuning ==
  held => /\ currentFrequency = left[bandIdx][1]
          /\ currentStep = left[bandIdx][2]

\* back on 41m, which was left at 7105 with step 10
C8_Witness ==
  /\ held
  /\ bandIdx = 7
  /\ left[7] = <<7105, 10>>
  /\ currentFrequency = 7105
  /\ currentStep = 10

\* three band-up presses, then three band-down presses
ThreeUpThreeDown(s) ==
  bandDown(bandDown(bandDown(bandUp(bandUp(bandUp(s))))))

\* the fields of the receiver state and the band table
ReceiverState(s) ==
  <<s.bandIdx, s.currentMode, s.currentFrequency, s.currentStep, s.bfoOn,
    s.currentBFO, s.currentBFOStep, s.ssbLoaded, s.agcIdx, s.disableAgc,
    s.agcNdx, s.audioMute, s.bwIdxSSB, s.bwIdxAM, s.lastSwBand, s.band>>

\* the active band is 41m with step 5 and frequency 7100
On41mAt7100 == bandIdx = 7 /\ currentStep = 5 /\ currentFrequency = 7100

\* C9 as stated: from any state on 41m with step 5 and frequency 7100,
\* three band-up presses then three band-down presses leave the receiver
\* state and the band table as they were.
C9_RoundTripAnyState ==
  On41mAt7100 => ReceiverState(ThreeUpThreeDown(Cur)) = ReceiverState(Cur)

\* C9: from any state on 41m with step 5 and frequency 7100 whose table
\* entry for 41m stores 7100 too, three band-up presses then three
\* band-down presses leave the receiver state and the band table as they
\* were.
C9_RoundTripStored ==
  (On41mAt7100 /\ band[7].currentFreq = 7100) =>
     ReceiverState(ThreeUpThreeDown(Cur)) = ReceiverState(Cur)

\* on 41m at 7100 in an SSB session with the BFO on and moved, the table
\* in step; the three presses up end on 25m
C9_Witness ==
  /\ On41mAt7100
  /\ band[7].currentFreq = 7100
  /\ currentMode = LSB
  /\ bfoOn
  /\ currentBFO # 0
  /\ bandUp(bandUp(bandUp(Cur))).bandIdx = 10

\* n presses of the AGC control
RECURSIVE agcPresses(_, _)
agcPresses(s, n) == IF n = 0 THEN s ELSE agcPresses(agcPressed(s), n - 1)

\* C10: ten presses of the AGC control bring agcIdx and the pair
\* (disableAgc, agcNdx) given to the chip back to what they were, and
\* agcIdx 0 always goes with the same pair (AGC enabled, attenuation 0).
C10_AgcPeriodTen ==
  /\ agcPresses(Cur, 10).agcIdx = agcIdx
  /\ agcPresses(Cur, 10).disableAgc = disableAgc
  /\ agcPresses(Cur, 10).agcNdx = agcNdx
  /\ agcPresses(Cur, 10).chip.agc = chip.agc
  /\ agcIdx = 0 => (disableAgc = 0 /\ agcNdx = 0)

StepAfter(step, idx) ==
  CASE step = 1 -> 5
    [] step = 5 -> 10
    [] step = 10 -> 100
    [] step = 100 -> IF idx = lastBand THEN 500 ELSE 1
    [] step = 500 -> 1

Tuning(s) ==
  <<s.bandIdx, s.currentMode, s.currentFrequency, s.currentStep,
    s.ssbLoaded, s.bfoOn, s.band, s.chip>>

\* C15: in FM the MW and the SW shortcut are no-ops: band, mode, frequency,
\* step, ssbLoaded, bfoOn and the band table stay as they are and the chip
\* is not reprogrammed.
C15_ShortcutsNoOpInFM ==
  currentMode = FM =>
    /\ Tuning(mwPressed(Cur)) = Tuning(Cur)
    /\ Tuning(swPressed(Cur)) = Tuning(Cur)

\* C16: when a seek completes, the current frequency and the active band's
\* table entry both equal the final frequency reported by the chip.
C16_SeekPersistsFrequency ==
  \A stop \in SeekStops :
    /\ seekPressed(Cur, stop).chip.freq = stop
    /\ seekPressed(Cur, stop).currentFrequency = stop
    /\ seekPressed(Cur, stop).band[bandIdx].currentFreq = stop

\* C19: every band change (band up, band down, the FM, MW and SW jumps)
\* leaves bfoOn false, whatever the mode and ssbLoaded were before.
C19_BandChangeClearsBfoOn ==
  /\ ~bandUp(Cur).bfoOn
  /\ ~bandDown(Cur).bfoOn
  /\ ~fmPressed(Cur).bfoOn
  /\ ~mwPressed(Cur).bfoOn
  /\ ~swPressed(Cur).bfoOn

\* the mode useBand() derives for band idx from the mode and patch flag
\* the change started with
ModeFor(idx, mode, loaded) ==
  IF bandType(idx) = FM_BAND_TYPE THEN FM
  ELSE IF loaded THEN mode
  ELSE AM

\* C20: after band up or band down the mode is FM on the FM band, else the
\* previous mode (LSB or USB) if ssbLoaded was true before, else AM; the
\* SSB session is lost exactly when the change lands on the FM band.
C20_ModeRederived ==
  /\ ssbLoaded => currentMode \in {LSB, USB}
  /\ bandUp(Cur).currentMode
       = ModeFor(bandUp(Cur).bandIdx, currentMode, ssbLoaded)
  /\ bandDown(Cur).currentMode
       = ModeFor(bandDown(Cur).bandIdx, currentMode, ssbLoaded)
  /\ bandUp(Cur).ssbLoaded
       = (ssbLoaded /\ bandType(bandUp(Cur).bandIdx) # FM_BAND_TYPE)
  /\ bandDown(Cur).ssbLoaded
       = (ssbLoaded /\ bandType(bandDown(Cur).bandIdx) # FM_BAND_TYPE)

\* an SSB session on the last band, one band up from the FM band
C20_Witness ==
  /\ ssbLoaded
  /\ currentMode = USB
  /\ bandIdx = lastBand
  /\ bandUp(Cur).currentMode = FM
  /\ ~bandUp(Cur).ssbLoaded
  /\ bandDown(Cur).currentMode = USB
  /\ bandDown(Cur).ssbLoaded

\* C13: an RDS text is printed only when it differs from the text last
\* printed for its field, each field by its own cache; after the print the
\* cache holds the printed text; RDS is queried and printed only in FM.
C13_RdsPrintedOnChange ==
  /\ \A i \in DOMAIN rdsLog :
        rdsLog[i].op = "push" =>
          /\ rdsLog[i].new # rdsLog[i].old
          /\ rdsLog[i].kept = rdsLog[i].new
  /\ rdsLog # <<>> => currentMode = FM

\* the tick emptied the three caches before it printed any RDS text
ClearedFirst(log) ==
  \E i \in DOMAIN log :
     /\ log[i].op = "clear"
     /\ \A k \in 1..(i - 1) : log[k].op # "push"

\* C14: a tick in FM that changes the tuned frequency, by an encoder step
\* or by a seek that ends on another frequency, empties the three RDS
\* caches, and does so before it prints any RDS text.
C14_RetuneClearsRds ==
  [][(/\ currentMode = FM
      /\ currentMode' = FM
      /\ currentFrequency' # currentFrequency
      /\ \/ bufferStatioName # ""
         \/ bufferRdsMsg # ""
         \/ bufferRdsTime # "")
     => ClearedFirst(rdsLog')]_vars

\* C18: if the probe at startup finds no chip, the sketch stops for good
\* before the polling loop: no command reaches the chip, no global changes,
\* and the state is never left.
C18_NoChipHalts ==
  chip.addr = 0 =>
    /\ pc = "halt"
    /\ chip = chipAbsent
    /\ Cur = [globalsInit EXCEPT !.chip = chipAbsent, !.pc = "halt"]
    /\ moves = 0
    /\ ~ENABLED Next

\* started without a chip
C18_Witness ==
  /\ chip.addr = 0
  /\ pc = "halt"
  /\ currentFrequency = 0
  /\ band = bandInit

\* the steps encoderCount holds for the next tick, as the tick will take it
Pending(count) ==
  IF count = 0 THEN <<0, 0>>
  ELSE IF count = 1 THEN <<1, 0>>
  ELSE <<0, 1>>

\* C17: no encoder step the interrupt wrote is lost or misapplied: under
\* every interleaving of the interrupt with the tick's reads and its clear
\* of encoderCount, each step written has been applied by a tick in the
\* direction written or is still pending in the counter.
C17_NoStepLost ==
  /\ pc \in {"loop", "encDir"} => due = Pending(encoderCount)
  /\ pc = "encClear" => due = <<0, 0>>

\* C21: pressed outside FM, the AM, LSB and USB buttons keep the band
\* index, the frequency and the step, store the frequency and the step in
\* the band's table entry and tune the chip with what was stored; pressed
\* in FM they change nothing.
C21_ModeChangeKeepsTuning ==
  \A h \in {amPressed(Cur)}
           \cup {ssbPressed(Cur, mode, ok) :
                   mode \in {LSB, USB}, ok \in BOOLEAN} :
     IF currentMode = FM THEN h = Cur
     ELSE /\ h.bandIdx = bandIdx
          /\ h.currentFrequency = currentFrequency
          /\ h.currentStep = currentStep
          /\ h.band = [band EXCEPT ![bandIdx] =
                         [currentFreq |-> currentFrequency,
                          currentStep |-> currentStep]]
          /\ h.chip.freq = currentFrequency
          /\ h.chip.step = currentStep

\* a sideband selected after the band was tuned away from what its table
\* entry held
C21_Witness ==
  /\ currentMode = USB
  /\ ~held
  /\ currentFrequency # left[bandIdx][1]
  /\ band[bandIdx].currentFreq = currentFrequency
  /\ chip.func = "SSB"
  /\ chip.freq = currentFrequency

\* the pairs <<AGC disabled, attenuation>> of rung 1 to rung 9 and rung 0
LadderPairs ==
  << <<1, 0>>, <<1, 0>>, <<1, 5>>, <<1, 10>>, <<1, 15>>, <<1, 20>>,
     <<1, 25>>, <<1, 30>>, <<1, 35>>, <<0, 0>> >>

\* C22: from the state after start-up (AGC enabled, attenuation 0) the
\* first nine presses of the AGC control give the chip AGC disabled with
\* attenuation 0, 0, 5, 10, 15, 20, 25, 30, 35 and the tenth gives it AGC
\* enabled with attenuation 0; one press of the ten enables the AGC.
C22_LadderFromStart ==
  (agcIdx = 0 /\ disableAgc = 0 /\ agcNdx = 0) =>
    /\ \A n \in 1..10 : agcPresses(Cur, n).chip.agc = LadderPairs[n]
    /\ Cardinality({n \in 1..10 : agcPresses(Cur, n).chip.agc[1] = 0}) = 1

\* the AGC rung: index, AGC disabled, attenuation
AgcOf(s) == <<s.agcIdx, s.disableAgc, s.agcNdx>>

\* C23: band up / down, the FM, MW, SW, AM, LSB and USB buttons, the patch
\* loader, seek, the step and filter controls and the encoder (turned or
\* pushed) leave agcIdx, disableAgc and agcNdx as they are, and after
\* every band or mode change the chip holds the pair (disableAgc, agcNdx).
C23_AgcOnlyByAgcControl ==
  /\ \A h \in {bandUp(Cur), bandDown(Cur), fmPressed(Cur), mwPressed(Cur),
               swPressed(Cur), amPressed(Cur)}
              \cup {ssbPressed(Cur, mode, ok) :
                      mode \in {LSB, USB}, ok \in BOOLEAN} :
        /\ AgcOf(h) = AgcOf(Cur)
        /\ h.chip.agc = <<disableAgc, agcNdx>>
  /\ \A h \in {stepPressed(Cur), filterPressed(Cur), encoderPushed(Cur)}
              \cup {loadSSB(Cur, ok) : ok \in BOOLEAN}
              \cup {seekPressed(Cur, stop) : stop \in SeekStops}
              \cup {encoderMoved(rotaryEncoder(Cur, status)) :
                      status \in {"DIR_CW", "DIR_CCW"}} :
        AgcOf(h) = AgcOf(Cur)

\* a sideband selected, the patch loaded, with the AGC off and attenuation
\* 5: the reset of the loader is behind and the chip holds the pair
C23_Witness ==
  /\ AgcOf(Cur) = <<3, 1, 5>>
  /\ currentMode = LSB
  /\ ssbLoaded
  /\ chip.patchStage = 7
  /\ chip.agc = <<1, 5>>

\* C24: lastSwBand starts at 7 (41m), always is the index of an SW band
\* and is the active band whenever that is an SW band; a step changes it
\* only to the SW band the step makes active, so it is the SW band that
\* was active last; the SW shortcut goes to band lastSwBand.
C24_SwShortcutLastSw ==
  /\ lastSwBand = 7
  /\ [](/\ bandType(lastSwBand) = SW_BAND_TYPE
        /\ bandType(bandIdx) = SW_BAND_TYPE => lastSwBand = bandIdx
        /\ swPressed(Cur).bandIdx = lastSwBand)
  /\ [][lastSwBand' = IF bandType(bandIdx') = SW_BAND_TYPE THEN bandIdx'
                      ELSE lastSwBand]_vars

\* on the FM band after the All HF band was active: the shortcut goes
\* back to All HF
C24_Witness ==
  /\ bandIdx = 0
  /\ lastSwBand = lastBand
  /\ swPressed(Cur).bandIdx = lastBand
  /\ swPressed(Cur).lastSwBand = lastBand

\* C25: whatever the mode, the patch flag and bfoOn were, the MW and the
\* SW shortcut leave mode AM, ssbLoaded false and bfoOn false, the chip in
\* AM without the patch; an LSB or USB request after it runs the patch
\* loader from its first step to its last.
C25_ShortcutsEndSsbSession ==
  \A h \in {mwPressed(Cur), swPressed(Cur)} :
     /\ h.currentMode = AM
     /\ ~h.ssbLoaded
     /\ ~h.bfoOn
     /\ h.chip.func = "AM"
     /\ h.chip.patchStage = 0
     /\ \A mode \in {LSB, USB} :
          /\ ssbPressed(h, mode, TRUE).currentMode = mode
          /\ ssbPressed(h, mode, TRUE).ssbLoaded
          /\ ssbPressed(h, mode, TRUE).chip.patchStage = 7
          /\ ssbPressed(h, mode, TRUE).chip.func = "SSB"

\* on MW in AM, the BFO offset of the SSB session that the shortcut ended
\* still there
C25_Witness ==
  /\ bandIdx = 2
  /\ currentMode = AM
  /\ ~ssbLoaded
  /\ ~bfoOn
  /\ currentBFO # 0
  /\ chip.func = "AM"
  /\ chip.patchStage = 0

\* bandwidthSSB[] and bandwidthAM[] in Hz
bandwidthSSB == <<1200, 2200, 3000, 4000, 500, 1000>>
bandwidthAM == <<6000, 4000, 3000, 2000, 1000, 1800, 2500>>

\* the SSB bandwidths that bFilter takes as about 2 kHz or below
NarrowSSB(idx) == bandwidthSSB[idx + 1] < 2200

\* a press of the filter control moves the index of the family of the
\* current mode one on, round its table, and no other index
FilterAdvances(h) ==
  /\ h.bwIdxSSB = IF currentMode \in {LSB, USB}
                  THEN (bwIdxSSB + 1) % Len(bandwidthSSB) ELSE bwIdxSSB
  /\ h.bwIdxAM = IF currentMode = AM
                 THEN (bwIdxAM + 1) % Len(bandwidthAM) ELSE bwIdxAM
  /\ bwIdxSSB \in 0..5
  /\ bwIdxAM \in 0..6
  /\ currentMode \in {LSB, USB} => h.chip.audioBw = h.bwIdxSSB

\* C26 as stated: the filter control advances the index of the current
\* mode's family only, wrapping over 6 SSB and 7 AM settings, and in SSB
\* gives the chip cutoff filter 1 (on) for the narrow bandwidths and 0
\* (off) for the wide ones.
C26_FilterCutoffOnWhenNarrow ==
  /\ FilterAdvances(filterPressed(Cur))
  /\ currentMode \in {LSB, USB} =>
       filterPressed(Cur).chip.sbCutFlt
         = IF NarrowSSB(filterPressed(Cur).bwIdxSSB) THEN 1 ELSE 0

\* C26, amended: the same, with cutoff filter 0 for the narrow bandwidths
\* (1.2, 0.5, 1.0 kHz) and 1 for the wide ones (2.2, 3.0, 4.0 kHz).
C26_FilterCutoffZeroWhenNarrow ==
  /\ FilterAdvances(filterPressed(Cur))
  /\ currentMode \in {LSB, USB} =>
       filterPressed(Cur).chip.sbCutFlt
         = IF NarrowSSB(filterPressed(Cur).bwIdxSSB) THEN 0 ELSE 1

\* in SSB after the filter control was taken to 0.5 kHz
C26_Witness ==
  /\ currentMode \in {LSB, USB}
  /\ ssbLoaded
  /\ bwIdxSSB = 4
  /\ chip.audioBw = 4
  /\ chip.sbCutFlt = 0

\* what one step of the encoder, given with status, leaves
Turned(status) == encoderMoved(rotaryEncoder(Cur, status))

\* C27: the BFO step is 10 or 25.  With bfoOn an encoder step moves the
\* BFO offset by the BFO step, up or down, the chip is given the new
\* offset and the frequency stays; without bfoOn the chip is given one
\* frequency up or one frequency down, the frequency is read back from
\* the chip and the BFO offset stays.
C27_EncoderOneTarget ==
  /\ currentBFOStep \in {10, 25}
  /\ \A status \in {"DIR_CW", "DIR_CCW"} :
       /\ Turned(status).encoderCount = 0
       /\ IF bfoOn
          THEN /\ Turned(status).currentBFO
                   = IF status = "DIR_CW" THEN currentBFO + currentBFOStep
                     ELSE currentBFO - currentBFOStep
               /\ Turned(status).chip
                   = [chip EXCEPT !.bfo = Turned(status).currentBFO]
               /\ Turned(status).currentFrequency = currentFrequency
          ELSE /\ Turned(status).chip
                   = ChipApply(chip, IF status = "DIR_CW"
                                     THEN Cmd("frequencyUp", <<>>)
                                     ELSE Cmd("frequencyDown", <<>>))
               /\ Turned(status).chip.freq # chip.freq
               /\ Turned(status).chip.bfo = chip.bfo
               /\ Turned(status).currentFrequency = Turned(status).chip.freq
               /\ Turned(status).currentBFO = currentBFO

\* the BFO on, its step taken to 10 and the encoder turned down once
C27_Witness ==
  /\ bfoOn
  /\ currentBFOStep = 10
  /\ currentBFO = -10
  /\ chip.bfo = -10
  /\ currentFrequency = chip.freq

\* C28: the AGC label left by showStatus() is "AGC ON" exactly when the
\* pair the chip was last given has the AGC enabled, and else shows the
\* attenuation the chip was given.
C28_AgcLabelTellsChipAgc ==
  bufferAGC = IF chip.agc[1] = 0 THEN <<"AGC ON">>
              ELSE <<"ATT", chip.agc[2]>>

\* C29: between the ticks of loop() the active step is the step stored in
\* the active band's table entry, no entry but the one of the All HF band
\* stores 500, and the active step is 500 only on the All HF band.
C29_StepInTable ==
  pc = "loop" =>
    /\ currentStep = band[bandIdx].currentStep
    /\ \A i \in Bands \ {lastBand} : band[i].currentStep # 500
    /\ currentStep = 500 => bandIdx = lastBand

\* another band active after the All HF band was left at step 500
C29_Witness ==
  /\ pc = "loop"
  /\ bandIdx # lastBand
  /\ band[lastBand].currentStep = 500
  /\ left[lastBand][2] = 500
  /\ currentStep = band[bandIdx].currentStep

====
